---------------------------- MODULE Spec2Model ----------------------------
(***************************************************************************)
(* A model of guitartrainer.py: the Trainer (note scheduler and capture    *)
(* loop), NotePractice (one attempt) and the pitch mapping of Note.        *)
(*                                                                         *)
(* Numbers.  Frequencies are integers in mHz.  Magnitudes ("peak") are     *)
(* integers.  threshold_multiplier is kept times 10 (1.3 is 13) and        *)
(* noise_threshold times 100, so that                                      *)
(*     average(10 lowest) * multiplier  =  (sum of 10 lowest) * mult10/100 *)
(* is exact.  Time is an integer clock, now, that a blocking read of one   *)
(* audio block advances by one.                                            *)
(***************************************************************************)
EXTENDS Integers, Sequences, FiniteSets

(***************************************************************************)
(* Bounds of the model.                                                    *)
(***************************************************************************)
\* the topics of the catalog are cut to their first notes: TopicLen of the
\* second topic and one fewer of the first, which is the shorter one
TopicLen == 5
\* attempts requested under SpecSched with all notes in play at once ...
MaxSchedAttempts == 5
\* ... and with notes added incrementally
MaxIncAttempts == 3
\* attempts requested under SpecFair
MaxFairAttempts == 10
\* attempts requested under SpecGrowth
MaxGrowthAttempts == 4
\* attempts requested under SpecSkip
MaxSkipAttempts == 2
\* attempts requested and audio blocks read under SpecListen
MaxListenAttempts == 2
MaxListenBlocks == 4
\* the latest time passed to a setter under SpecSetters
MaxTime == 2
\* the largest count passed to a setter under SpecSetters
MaxHeard == 1
\* the largest midi value passed to Note and to midi_to_freq under SpecValues
MaxMidi == 100
\* the highest bin with energy in the spectra analysed under SpecValues
MaxBin == 260
\* attempts requested under SpecConfig
MaxConfigAttempts == 2
\* attempts requested through the window
MaxGuiAttempts == 2
\* attempts requested under SpecTune
MaxTuneAttempts == 1
\* attempts requested under SpecCancel
MaxCancelAttempts == 2
\* capture threads created under SpecCapture, SpecProper and Spec
MaxAttempts == 2
\* audio blocks read under SpecCapture, SpecProper, SpecCancel and Spec
MaxBlocks == 3

(***************************************************************************)
(* Program constants.                                                      *)
(***************************************************************************)
SAMPLING_FREQ == 44100
SAMPLE_SIZE == 16384
MIDI_MIN == 40
MIDI_MAX == 76
\* 1.3, times 10
THRESHOLD_MULTIPLIER_DEFAULT == 13
ADD_NOTES_INCREMENT_DEFAULT == 10
ADD_NOTES_INCREMENTALLY == 0
ADD_NOTES_ALL_AT_ONCE == 1
\* the initial noise threshold and the filling of the noise window
NOISE_INITIAL == 100000
\* the length of the noise window
NOISE_WINDOW == 50
\* how many of the lowest readings are averaged
NOISE_LOWEST == 10
\* notes seeded in incremental mode
SEED_NOTES == 3
\* the history window of the ranking is 5 times the notes in play
LOOKBACK_FACTOR == 5
\* from this many prior attempts on the least practiced notes are chosen
RANKED_FROM == 4
\* the highest index drawn from the ranked list
RANKED_MAX_INDEX == 2

(***************************************************************************)
(* Sequences.                                                              *)
(***************************************************************************)
Range(s) == {s[i] : i \in 1..Len(s)}

Min(a, b) == IF a <= b THEN a ELSE b

\* list.index(x): the first position of x (1-based), 0 when absent
FirstIndex(s, x) ==
  IF \E i \in 1..Len(s) : s[i] = x
  THEN CHOOSE i \in 1..Len(s) : s[i] = x /\ \A j \in 1..(i - 1) : s[j] # x
  ELSE 0

\* RemoveFirst without the del: the note stays where it was
RemoveFirstKeeps(s, x) == s

\* del s[s.index(x)], list.remove(x): s without the first occurrence of x
\* (Python raises ValueError when x is absent; every caller removes a member)
RemoveFirst(s, x) ==
  LET k == FirstIndex(s, x)
  IN  IF k = 0 THEN s
      ELSE [i \in 1..(Len(s) - 1) |-> IF i < k THEN s[i] ELSE s[i + 1]]

(***************************************************************************)
(* Note.                                                                   *)
(***************************************************************************)
NoteError == [midi |-> -1, name |-> "ValueError", staff_loc |-> 0]

Note(midi, name, staff_loc) ==
  IF midi >= MIDI_MIN \/ midi <= MIDI_MAX
  THEN [midi |-> midi, name |-> name, staff_loc |-> staff_loc]
  ELSE NoteError

\* the first two topics of the catalog
CatalogData ==
  << << Note(40, "E", -5), Note(41, "F", -4), Note(43, "G", -3), Note(45, "A", -2),
        Note(47, "B", -1), Note(48, "C", 0), Note(50, "D", 1), Note(52, "E", 2) >>,
     << Note(40, "E", -5), Note(41, "F", -4), Note(42, "F#", -4), Note(43, "G", -3),
        Note(44, "G#", -3), Note(45, "A", -2), Note(46, "A#", -2), Note(47, "B", -1),
        Note(48, "C", 0), Note(49, "C#", 0), Note(50, "D", 1), Note(51, "D#", 1),
        Note(52, "E", 2) >> >>

\* len(self.topics) of the modelled catalog
NumTopics == Len(CatalogData)

\* Trainer._topics, by Python index 0 .. NumTopics - 1, each topic cut to its
\* first notes
topics == [t \in 0..(NumTopics - 1) |-> SubSeq(CatalogData[t + 1], 1, TopicLen - 1 + t)]

\* Topic.notes
TopicNotes(t) == topics[t]

(***************************************************************************)
(* Pitch mapping.                                                          *)
(***************************************************************************)
\* MidiLowerBound[m - 38] is the least frequency (mHz, rounded up) whose
\* 69 + 12 * log2(freq / 440) is at least m - 0.5, for m = 39 .. 78
MidiLowerBound ==
  << 75568, 80061, 84822, 89866, 95210, 100871, 106869, 113224, 119956, 127089,
     134646, 142653, 151135, 160122, 169644, 179731, 190419, 201741, 213738,
     226447, 239912, 254178, 269292, 285305, 302270, 320244, 339287, 359462,
     380837, 403482, 427475, 452893, 479824, 508356, 538584, 570610, 604540,
     640488, 678573, 718923 >>

\* Note.freq_to_midi: int(round(69 + 12 * log2(freq / 440))), for the
\* frequencies of the table; 0 stands for a value outside 39 .. 77
freq_to_midi(freq) ==
  IF freq < MidiLowerBound[1] \/ freq >= MidiLowerBound[40]
  THEN 0
  ELSE CHOOSE m \in 39..77 :
         MidiLowerBound[m - 38] <= freq /\ freq < MidiLowerBound[m - 37]

\* 440 * 2.0 ** ((midi - 69) / 12.0) in mHz, for midi 0 .. 127
MidiFreq ==
  << 8176, 8662, 9177, 9723, 10301, 10913, 11562, 12250, 12978, 13750, 14568,
     15434, 16352, 17324, 18354, 19445, 20602, 21827, 23125, 24500, 25957,
     27500, 29135, 30868, 32703, 34648, 36708, 38891, 41203, 43654, 46249,
     48999, 51913, 55000, 58270, 61735, 65406, 69296, 73416, 77782, 82407,
     87307, 92499, 97999, 103826, 110000, 116541, 123471, 130813, 138591,
     146832, 155563, 164814, 174614, 184997, 195998, 207652, 220000, 233082,
     246942, 261626, 277183, 293665, 311127, 329628, 349228, 369994, 391995,
     415305, 440000, 466164, 493883, 523251, 554365, 587330, 622254, 659255,
     698456, 739989, 783991, 830609, 880000, 932328, 987767, 1046502,
     1108731, 1174659, 1244508, 1318510, 1396913, 1479978, 1567982, 1661219,
     1760000, 1864655, 1975533, 2093005, 2217461, 2349318, 2489016, 2637020,
     2793826, 2959955, 3135963, 3322438, 3520000, 3729310, 3951066, 4186009,
     4434922, 4698636, 4978032, 5274041, 5587652, 5919911, 6271927, 6644875,
     7040000, 7458620, 7902133, 8372018, 8869844, 9397273, 9956063, 10548082,
     11175303, 11839822, 12543854 >>

\* midi_to_freq an octave too high: 880 in the place of 440
midi_to_freq_octave(midi) == MidiFreq[midi + 1] * 2

\* Note.midi_to_freq
midi_to_freq(midi) == MidiFreq[midi + 1]

\* Trainer._fft_freqs[i] for a bin of the lower half of the spectrum:
\* i * SAMPLING_FREQ / SAMPLE_SIZE Hz = i * 1378125 / 512 mHz
fft_freqs(i) == (i * ((SAMPLING_FREQ * 125) \div 4)) \div (SAMPLE_SIZE \div 32)


\* A spectrum is given by its bins with energy, every other bin being silent.
\* dominant_bin without the slice: the argmax over the whole spectrum
dominant_bin_whole(spectrum, imin, imax) ==
  CHOOSE i \in DOMAIN spectrum :
    /\ \A j \in DOMAIN spectrum : spectrum[j] <= spectrum[i]
    /\ \A j \in DOMAIN spectrum : spectrum[j] = spectrum[i] => i <= j

\* np.abs(fft[imin:imax]).argmax() + imin: the first bin of the slice whose
\* magnitude is the largest of the slice
dominant_bin(spectrum, imin, imax) ==
  LET band == {i \in DOMAIN spectrum : imin <= i /\ i < imax /\ spectrum[i] > 0}
  IN  IF band = {} THEN imin
      ELSE CHOOSE i \in band :
             /\ \A j \in band : spectrum[j] <= spectrum[i]
             /\ \A j \in band : spectrum[j] = spectrum[i] => i <= j

(***************************************************************************)
(* State.                                                                  *)
(***************************************************************************)
VARIABLES
  \* Trainer
  topic,                      \* the Python index of Trainer._topic in _topics
  topic_changed,
  add_notes_method,
  add_notes_method_changed,
  add_notes_increment,
  threshold_multiplier,       \* times 10
  notes_in_play,
  notes_in_queue,
  practiced_notes,            \* the NotePractice objects of the history
  noise_levels,
  noise_threshold,            \* times 100
  audio_buf,                  \* the block last read, by what the analysis finds in it
  \* the capture threads
  threads,                    \* threads[i] runs _capture_note_thread(practiced_notes[i])
  orphans,                    \* attempts dropped from the history whose thread still runs
  \* the environment
  stream_active,              \* Trainer._audio_stream.is_active()
  now,                        \* time.time()
  raised,                     \* the exception of the caller's last call, "" for none
  \* MainGUI
  in_training,                \* MainGUI._in_training
  after_calls,                \* the callbacks scheduled with after() and not yet run
  \* the caller
  probe                       \* what the caller's last call of a function returned

schedVars == << topic, topic_changed, add_notes_method, add_notes_method_changed,
                add_notes_increment, notes_in_play, notes_in_queue >>

noiseVars == << noise_levels, noise_threshold, audio_buf >>

\* what no method of the Trainer and no capture thread touches
outerVars == << in_training, after_calls, probe >>

vars == << topic, topic_changed, add_notes_method, add_notes_method_changed,
           add_notes_increment, threshold_multiplier, notes_in_play,
           notes_in_queue, practiced_notes, noise_levels, noise_threshold,
           audio_buf, threads, orphans, stream_active, now, raised,
           in_training, after_calls, probe >>

\* NotePractice.__init__
NotePractice(target_note) ==
  [target_note |-> target_note, complete |-> FALSE, num_notes_heard |-> 0,
   start_timestamp |-> 0, success_timestamp |-> 0, terminate |-> FALSE]

\* Thread(target = self._capture_note_thread, args = (note_practice,)).start():
\* the thread's position and its locals freq and peak
NewThread == [pc |-> "created", freq |-> 0, peak |-> 0]

\* the bins the band keeps: _fft_imin and _fft_imax
fft_imin == 31
fft_imax == 246

\* Trainer.__init__; PyAudio.open starts the stream it opens
Init ==
  /\ topic = 1
  /\ topic_changed = TRUE
  /\ add_notes_method = ADD_NOTES_INCREMENTALLY
  /\ add_notes_method_changed = FALSE
  /\ add_notes_increment = ADD_NOTES_INCREMENT_DEFAULT
  /\ threshold_multiplier = THRESHOLD_MULTIPLIER_DEFAULT
  /\ notes_in_play = << >>
  /\ notes_in_queue = << >>
  /\ practiced_notes = << >>
  /\ noise_levels = [i \in 1..NOISE_WINDOW |-> NOISE_INITIAL]
  /\ noise_threshold = NOISE_INITIAL * 100
  /\ audio_buf = [bin |-> fft_imin, peak |-> 0]
  /\ threads = << >>
  /\ orphans = << >>
  /\ stream_active = TRUE
  /\ now = 1
  /\ raised = ""
  /\ in_training = FALSE
  /\ after_calls = [check |-> 0, start |-> 0]
  /\ probe = [call |-> ""]

(***************************************************************************)
(* Trainer: the choice of the next note.                                   *)
(***************************************************************************)
\* Trainer.current_note_practice (None is << >>)
current_note_practice ==
  IF Len(practiced_notes) > 0 THEN << practiced_notes[Len(practiced_notes)] >> ELSE << >>

\* MoveRandom without the del: the note drawn stays in the queue
RECURSIVE MoveKeepQueue(_, _, _)
MoveKeepQueue(play, queue, n) ==
  IF n = 0 THEN {[play |-> play, queue |-> queue]}
  ELSE UNION {MoveKeepQueue(Append(play, r), queue, n - 1) : r \in Range(queue)}

\* n times: r = random.choice(queue); play.append(r); del queue[queue.index(r)]
RECURSIVE MoveRandom(_, _, _)
MoveRandom(play, queue, n) ==
  IF n = 0 THEN {[play |-> play, queue |-> queue]}
  ELSE UNION {MoveRandom(Append(play, r), RemoveFirst(queue, r), n - 1) : r \in Range(queue)}

\* the attempts _notes_sorted_by_times_practiced looks at: the most recent
\* len(note_times) * 5 of the history
LookedAt(play, hist) ==
  {i \in 1..Len(hist) : Len(hist) - i + 1 <= Len(play) * LOOKBACK_FACTOR}

\* note_times[j]['Times']: an attempt counts for the first note equal to its target
Times(play, hist, j) ==
  IF \E j2 \in 1..(j - 1) : play[j2] = play[j] THEN 0
  ELSE Cardinality({i \in LookedAt(play, hist) : hist[i].target_note = play[j]})

\* _notes_sorted_by_times_practiced without the sort
notes_unsorted(play, hist) == play

\* note_times.sort(key = 'Times'): list.sort is stable, so the note at j goes
\* behind the notes with fewer times and the earlier notes with as many
SortedByTimes(play, times) ==
  LET place == [j \in 1..Len(play) |->
                  1 + Cardinality({i \in 1..Len(play) :
                                     times[i] < times[j] \/ (times[i] = times[j] /\ i < j)})]
  IN  [p \in 1..Len(play) |-> play[CHOOSE j \in 1..Len(play) : place[j] = p]]

\* Trainer._notes_sorted_by_times_practiced
notes_sorted_by_times_practiced(play, hist) ==
  SortedByTimes(play, [j \in 1..Len(play) |-> Times(play, hist, j)])

\* PickChoices without notes.remove(...): the last target stays a candidate
PickWithRepeat(play, hist) ==
  IF Len(hist) >= RANKED_FROM
  THEN LET notes == notes_sorted_by_times_practiced(play, hist)
       IN  {notes[i + 1] : i \in 0..Min(Len(notes) - 1, RANKED_MAX_INDEX)}
  ELSE Range(play)

\* the notes the next target is drawn from (lines 285-294)
PickChoices(play, hist) ==
  IF Len(hist) >= RANKED_FROM
  THEN LET notes == RemoveFirst(notes_sorted_by_times_practiced(play, hist),
                                hist[Len(hist)].target_note)
       IN  {notes[i + 1] : i \in 0..Min(Len(notes) - 1, RANKED_MAX_INDEX)}
  ELSE IF Len(hist) > 0
  THEN Range(RemoveFirst(play, hist[Len(hist)].target_note))
  ELSE Range(play)

\* ResetDue without the test of _add_notes_method_changed
ResetOnTopicOnly == topic_changed

\* whether the next request re-seeds (line 264)
ResetDue == topic_changed \/ add_notes_method_changed

\* GrowthDue without the test of the increment
GrowthEveryRequest ==
  /\ ~ResetDue
  /\ Len(practiced_notes) > 0
  /\ Len(notes_in_queue) > 0

\* GrowthDue counting the attempt about to be created
GrowthOffByOne ==
  /\ ~ResetDue
  /\ Len(practiced_notes) > 0
  /\ (Len(practiced_notes) + 1) % add_notes_increment = 0
  /\ Len(notes_in_queue) > 0

\* whether the next request moves a note from the queue into play (lines 278-279)
GrowthDue ==
  /\ ~ResetDue
  /\ Len(practiced_notes) > 0
  /\ Len(practiced_notes) % add_notes_increment = 0
  /\ Len(notes_in_queue) > 0

\* Seeded without self._notes_in_queue = [] in the all-at-once branch
SeededLeavesQueue ==
  IF ResetDue
  THEN IF add_notes_method = ADD_NOTES_INCREMENTALLY
       THEN MoveRandom(<< >>, TopicNotes(topic), SEED_NOTES)
       ELSE [play : {TopicNotes(topic)}, queue : {notes_in_queue}]
  ELSE IF GrowthDue
  THEN MoveRandom(notes_in_play, notes_in_queue, 1)
  ELSE {[play |-> notes_in_play, queue |-> notes_in_queue]}

\* the notes in play and in queue after lines 264-282
Seeded ==
  IF ResetDue
  THEN IF add_notes_method = ADD_NOTES_INCREMENTALLY
       THEN MoveRandom(<< >>, TopicNotes(topic), SEED_NOTES)
       ELSE IF add_notes_method = ADD_NOTES_ALL_AT_ONCE
       THEN {[play |-> TopicNotes(topic), queue |-> << >>]}
       ELSE {[play |-> notes_in_play, queue |-> notes_in_queue]}
  ELSE IF GrowthDue
  THEN MoveRandom(notes_in_play, notes_in_queue, 1)
  ELSE {[play |-> notes_in_play, queue |-> notes_in_queue]}

\* the threads that have not ended
Alive(th) == th.pc \notin {"done", "crashed"}

\* the attempts of the history whose thread still runs, with their threads
Running ==
  LET idx == {i \in 1..Len(practiced_notes) : Alive(threads[i])}
      RECURSIVE Pack(_)
      Pack(i) == IF i > Len(practiced_notes) THEN << >>
                 ELSE IF i \in idx
                 THEN << [np |-> practiced_notes[i], th |-> threads[i]] >> \o Pack(i + 1)
                 ELSE Pack(i + 1)
  IN  Pack(1)

\* Trainer.new_note_practice; the caller says what becomes of outerVars
new_note_practice ==
  LET hist == IF ResetDue THEN << >> ELSE practiced_notes
  IN  \E s \in Seeded : \E r \in PickChoices(s.play, hist) :
        /\ topic_changed' = FALSE
        /\ add_notes_method_changed' = FALSE
        /\ notes_in_play' = s.play
        /\ notes_in_queue' = s.queue
        /\ practiced_notes' = Append(hist, NotePractice(r))
        /\ threads' = Append(IF ResetDue THEN << >> ELSE threads, NewThread)
        /\ orphans' = IF ResetDue THEN orphans \o Running ELSE orphans
        /\ raised' = ""
        /\ UNCHANGED << topic, add_notes_method, add_notes_increment,
                        threshold_multiplier, noiseVars, stream_active, now >>

(***************************************************************************)
(* Trainer: the configuration.                                             *)
(***************************************************************************)
\* set_threshold_multiplier with strict comparisons: 1.0 and 3.0 are refused
set_threshold_multiplier_open(value) ==
  /\ IF 10 < value /\ value < 30
     THEN threshold_multiplier' = value /\ raised' = ""
     ELSE raised' = "ValueError" /\ UNCHANGED threshold_multiplier
  /\ UNCHANGED << schedVars, practiced_notes, noiseVars, threads, orphans,
                  stream_active, now >>
  /\ UNCHANGED outerVars

\* the setter of Trainer.threshold_multiplier (value times 10)
set_threshold_multiplier(value) ==
  /\ IF 10 <= value /\ value <= 30
     THEN threshold_multiplier' = value /\ raised' = ""
     ELSE raised' = "ValueError" /\ UNCHANGED threshold_multiplier
  /\ UNCHANGED << schedVars, practiced_notes, noiseVars, threads, orphans,
                  stream_active, now >>
  /\ UNCHANGED outerVars

\* the setter of Trainer.add_notes_increment
set_add_notes_increment(value) ==
  /\ IF 1 <= value /\ value <= 100
     THEN add_notes_increment' = value /\ raised' = ""
     ELSE raised' = "ValueError" /\ UNCHANGED add_notes_increment
  /\ UNCHANGED << topic, topic_changed, add_notes_method, add_notes_method_changed,
                  notes_in_play, notes_in_queue, threshold_multiplier,
                  practiced_notes, noiseVars, threads, orphans, stream_active, now >>
  /\ UNCHANGED outerVars

\* the setter of Trainer.add_notes_method
set_add_notes_method(value) ==
  /\ IF value = ADD_NOTES_INCREMENTALLY \/ value = ADD_NOTES_ALL_AT_ONCE
     THEN /\ add_notes_method_changed' =
               IF value # add_notes_method THEN TRUE ELSE add_notes_method_changed
          /\ add_notes_method' = value
          /\ raised' = ""
     ELSE raised' = "ValueError" /\ UNCHANGED << add_notes_method, add_notes_method_changed >>
  /\ UNCHANGED << topic, topic_changed, add_notes_increment, notes_in_play,
                  notes_in_queue, threshold_multiplier, practiced_notes, noiseVars,
                  threads, orphans, stream_active, now >>
  /\ UNCHANGED outerVars

\* set_current_topic that marks the topic as changed only when it is another
set_current_topic_if_new(value) ==
  /\ IF value <= NumTopics
     THEN IF -NumTopics <= value /\ value < NumTopics
          THEN /\ topic' = IF value < 0 THEN value + NumTopics ELSE value
               /\ topic_changed' = IF topic' # topic THEN TRUE ELSE topic_changed
               /\ raised' = ""
          ELSE raised' = "IndexError" /\ UNCHANGED << topic, topic_changed >>
     ELSE raised' = "ValueError" /\ UNCHANGED << topic, topic_changed >>
  /\ UNCHANGED << add_notes_method, add_notes_method_changed, add_notes_increment,
                  notes_in_play, notes_in_queue, threshold_multiplier,
                  practiced_notes, noiseVars, threads, orphans, stream_active, now >>
  /\ UNCHANGED outerVars

\* the setter of Trainer.current_topic; self._topics[value] takes a negative
\* value from the end and raises IndexError outside -len .. len - 1
set_current_topic(value) ==
  /\ IF value <= NumTopics
     THEN IF -NumTopics <= value /\ value < NumTopics
          THEN /\ topic' = IF value < 0 THEN value + NumTopics ELSE value
               /\ topic_changed' = TRUE
               /\ raised' = ""
          ELSE raised' = "IndexError" /\ UNCHANGED << topic, topic_changed >>
     ELSE raised' = "ValueError" /\ UNCHANGED << topic, topic_changed >>
  /\ UNCHANGED << add_notes_method, add_notes_method_changed, add_notes_increment,
                  notes_in_play, notes_in_queue, threshold_multiplier,
                  practiced_notes, noiseVars, threads, orphans, stream_active, now >>
  /\ UNCHANGED outerVars

\* the setter of NotePractice.terminate, called with True
TerminateRaises(np) == np.terminate = TRUE

\* Trainer.kill_current_note_practice
kill_current_note_practice ==
  /\ IF Len(practiced_notes) > 0
     THEN IF TerminateRaises(practiced_notes[Len(practiced_notes)])
          THEN raised' = "ValueError" /\ UNCHANGED practiced_notes
          ELSE /\ practiced_notes' =
                    [practiced_notes EXCEPT ![Len(practiced_notes)].terminate = TRUE]
               /\ raised' = ""
     ELSE raised' = "" /\ UNCHANGED practiced_notes
  /\ UNCHANGED << schedVars, threshold_multiplier, noiseVars, threads, orphans,
                  stream_active, now >>
  /\ UNCHANGED outerVars

(***************************************************************************)
(* NotePractice: the setters, as any holder of current_note_practice calls  *)
(* them.  A setter gives the attempt after the call and what it raised.     *)
(***************************************************************************)
Returned(np) == [np |-> np, raised |-> ""]

Raised(np) == [np |-> np, raised |-> "ValueError"]

\* terminate_setter without the guard: a plain assignment
terminate_assign(np, value) == Returned([np EXCEPT !.terminate = value])

\* NotePractice.terminate setter
terminate_setter(np, value) ==
  IF np.terminate = TRUE \/ value = FALSE
  THEN Raised(np)
  ELSE Returned([np EXCEPT !.terminate = value])

\* NotePractice.complete setter
complete_setter(np, value) ==
  IF np.complete = FALSE /\ value = TRUE
  THEN Returned([np EXCEPT !.complete = value])
  ELSE Raised(np)

\* NotePractice.num_notes_heard setter
num_notes_heard_setter(np, value) == Returned([np EXCEPT !.num_notes_heard = value])

\* NotePractice.start_timestamp setter
start_timestamp_setter(np, value) ==
  IF np.start_timestamp # 0
  THEN Raised(np)
  ELSE Returned([np EXCEPT !.start_timestamp = value])

\* NotePractice.success_timestamp setter
success_timestamp_setter(np, value) ==
  IF value <= np.start_timestamp \/ np.success_timestamp # 0
  THEN Raised(np)
  ELSE Returned([np EXCEPT !.success_timestamp = value])

\* a call of a setter on the current attempt, r being what the setter gives
Call(r) ==
  /\ practiced_notes' = [practiced_notes EXCEPT ![Len(practiced_notes)] = r.np]
  /\ raised' = r.raised
  /\ UNCHANGED << schedVars, threshold_multiplier, noiseVars, threads, orphans,
                  stream_active, now >>
  /\ UNCHANGED outerVars

call_terminate(value) ==
  Len(practiced_notes) > 0 /\ Call(terminate_setter(practiced_notes[Len(practiced_notes)], value))

call_complete(value) ==
  Len(practiced_notes) > 0 /\ Call(complete_setter(practiced_notes[Len(practiced_notes)], value))

call_num_notes_heard(value) ==
  Len(practiced_notes) > 0 /\ Call(num_notes_heard_setter(practiced_notes[Len(practiced_notes)], value))

call_start_timestamp(value) ==
  Len(practiced_notes) > 0 /\ Call(start_timestamp_setter(practiced_notes[Len(practiced_notes)], value))

call_success_timestamp(value) ==
  Len(practiced_notes) > 0 /\ Call(success_timestamp_setter(practiced_notes[Len(practiced_notes)], value))

(***************************************************************************)
(* The functions of the module called on their own: the caller keeps what   *)
(* the call was given and what it returned.                                 *)
(***************************************************************************)
trainerVars == << schedVars, threshold_multiplier, practiced_notes, noiseVars,
                  threads, orphans, stream_active, now >>

\* Note(midi, name, staff_loc)
construct_note(midi) ==
  LET note == Note(midi, "X", 0)
  IN  /\ probe' = [call |-> "Note", midi |-> midi, value |-> note]
      /\ raised' = IF note = NoteError THEN "ValueError" ELSE ""
      /\ UNCHANGED << trainerVars, in_training, after_calls >>

\* Note.freq_to_midi(Note.midi_to_freq(midi))
convert_midi(midi) ==
  /\ probe' = [call |-> "freq_to_midi", midi |-> midi, freq |-> midi_to_freq(midi),
                value |-> freq_to_midi(midi_to_freq(midi))]
  /\ raised' = ""
  /\ UNCHANGED << trainerVars, in_training, after_calls >>

\* freq = self._fft_freqs[np.abs(fft[imin:imax]).argmax() + imin]; freq_to_midi(freq)
find_dominant(spectrum) ==
  LET bin == dominant_bin(spectrum, fft_imin, fft_imax)
  IN  /\ probe' = [call |-> "argmax", spectrum |-> spectrum, bin |-> bin,
                    freq |-> fft_freqs(bin), value |-> freq_to_midi(fft_freqs(bin))]
      /\ raised' = ""
      /\ UNCHANGED << trainerVars, in_training, after_calls >>

(***************************************************************************)
(* Trainer._capture_note_thread, one action per statement.  A thread is    *)
(* named by where its attempt is: << "hist", i >> or << "orph", j >>.      *)
(***************************************************************************)
Handles ==
  {<< "hist", i >> : i \in 1..Len(practiced_notes)} \cup
  {<< "orph", j >> : j \in 1..Len(orphans)}

NP(h) == IF h[1] = "hist" THEN practiced_notes[h[2]] ELSE orphans[h[2]].np

TH(h) == IF h[1] = "hist" THEN threads[h[2]] ELSE orphans[h[2]].th

\* the attempt and the thread after a step; an orphan is forgotten when its
\* thread ends
Put(h, np, th) ==
  IF h[1] = "hist"
  THEN /\ practiced_notes' = [practiced_notes EXCEPT ![h[2]] = np]
       /\ threads' = [threads EXCEPT ![h[2]] = th]
       /\ UNCHANGED orphans
  ELSE /\ orphans' = IF Alive(th)
                     THEN [orphans EXCEPT ![h[2]] = [np |-> np, th |-> th]]
                     ELSE [j \in 1..(Len(orphans) - 1) |->
                             IF j < h[2] THEN orphans[j] ELSE orphans[j + 1]]
       /\ UNCHANGED << practiced_notes, threads >>

At(h, pc) == [TH(h) EXCEPT !.pc = pc]

\* self._audio_stream.start_stream()
start_stream(h) ==
  /\ TH(h).pc = "created"
  /\ stream_active' = TRUE
  /\ Put(h, NP(h), At(h, "stamp"))
  /\ UNCHANGED << schedVars, threshold_multiplier, noiseVars, now, raised >>
  /\ UNCHANGED outerVars

\* the setter of NotePractice.start_timestamp
StartTimestampRaises(np) == np.start_timestamp # 0

\* note_practice.start_timestamp = time.time()
set_start_timestamp(h) ==
  /\ TH(h).pc = "stamp"
  /\ IF StartTimestampRaises(NP(h))
     THEN Put(h, NP(h), At(h, "crashed"))
     ELSE Put(h, [NP(h) EXCEPT !.start_timestamp = now], At(h, "loop"))
  /\ UNCHANGED << schedVars, threshold_multiplier, noiseVars, stream_active, now, raised >>
  /\ UNCHANGED outerVars

\* LoopCondition without the test of terminate
LoopIgnoresTerminate(np) == stream_active

\* while self._audio_stream.is_active() and note_practice.terminate is False
LoopCondition(np) == stream_active /\ np.terminate = FALSE

loop_test(h) ==
  /\ TH(h).pc = "loop"
  /\ Put(h, NP(h), At(h, IF LoopCondition(NP(h)) THEN "read" ELSE "done"))
  /\ UNCHANGED << schedVars, threshold_multiplier, noiseVars, stream_active, now, raised >>
  /\ UNCHANGED outerVars

\* read_block with a clock that does not move while a block is read
read_block_no_time(h, block) ==
  /\ TH(h).pc = "read"
  /\ IF stream_active
     THEN /\ audio_buf' = block
          /\ Put(h, NP(h), At(h, "fft"))
     ELSE /\ Put(h, NP(h), At(h, "crashed"))
          /\ UNCHANGED audio_buf
  /\ UNCHANGED << schedVars, threshold_multiplier, noise_levels, noise_threshold,
                  stream_active, now, raised >>
  /\ UNCHANGED outerVars

\* self._audio_buf = np.fromstring(self._audio_stream.read(SAMPLE_SIZE), np.int16);
\* reading a stopped stream raises IOError
read_block(h, block) ==
  /\ TH(h).pc = "read"
  /\ IF stream_active
     THEN /\ audio_buf' = block
          /\ now' = now + 1
          /\ Put(h, NP(h), At(h, "fft"))
     ELSE /\ Put(h, NP(h), At(h, "crashed"))
          /\ UNCHANGED << audio_buf, now >>
  /\ UNCHANGED << schedVars, threshold_multiplier, noise_levels, noise_threshold,
                  stream_active, raised >>
  /\ UNCHANGED outerVars

\* self._audio_stream.read(SAMPLE_SIZE) raises IOError on an active stream (an
\* input overflow, a device that went away): nothing in the thread catches it
read_error(h) ==
  /\ TH(h).pc = "read"
  /\ stream_active
  /\ Put(h, NP(h), At(h, "crashed"))
  /\ UNCHANGED << schedVars, threshold_multiplier, noiseVars, stream_active, now, raised >>
  /\ UNCHANGED outerVars

\* fft = rfft(...); freq = self._fft_freqs[argmax in the band + imin];
\* peak = np.average(np.abs(fft))
analyse(h) ==
  /\ TH(h).pc = "fft"
  /\ Put(h, NP(h), [pc |-> "pop", freq |-> fft_freqs(audio_buf.bin),
                    peak |-> audio_buf.peak])
  /\ UNCHANGED << schedVars, threshold_multiplier, noiseVars, stream_active, now, raised >>
  /\ UNCHANGED outerVars

\* noise_popleft at the wrong end: pop() drops the newest reading
noise_pop_right(h) ==
  /\ TH(h).pc = "pop"
  /\ IF Len(noise_levels) > 0
     THEN /\ noise_levels' = SubSeq(noise_levels, 1, Len(noise_levels) - 1)
          /\ Put(h, NP(h), At(h, "push"))
     ELSE UNCHANGED noise_levels /\ Put(h, NP(h), At(h, "crashed"))
  /\ UNCHANGED << schedVars, threshold_multiplier, noise_threshold, audio_buf,
                  stream_active, now, raised >>
  /\ UNCHANGED outerVars

\* self._noise_levels.popleft()
noise_popleft(h) ==
  /\ TH(h).pc = "pop"
  /\ IF Len(noise_levels) > 0
     THEN noise_levels' = Tail(noise_levels) /\ Put(h, NP(h), At(h, "push"))
     ELSE UNCHANGED noise_levels /\ Put(h, NP(h), At(h, "crashed"))
  /\ UNCHANGED << schedVars, threshold_multiplier, noise_threshold, audio_buf,
                  stream_active, now, raised >>
  /\ UNCHANGED outerVars

\* self._noise_levels.append(peak)
noise_append(h) ==
  /\ TH(h).pc = "push"
  /\ noise_levels' = Append(noise_levels, TH(h).peak)
  /\ Put(h, NP(h), At(h, "thr"))
  /\ UNCHANGED << schedVars, threshold_multiplier, noise_threshold, audio_buf,
                  stream_active, now, raised >>
  /\ UNCHANGED outerVars

\* the least element of a non-empty sequence
Least(s) == CHOOSE x \in Range(s) : \A y \in Range(s) : x <= y

\* sum(sorted(s)[0:n])
RECURSIVE SumLowest(_, _)
SumLowest(s, n) ==
  IF n = 0 \/ Len(s) = 0 THEN 0
  ELSE Least(s) + SumLowest(RemoveFirst(s, Least(s)), n - 1)

\* Threshold over the whole window: np.average(levels) * multiplier
ThresholdOfAll(levels, multiplier) ==
  (SumLowest(levels, Len(levels)) * multiplier * 10) \div Len(levels)

\* np.average(sorted(levels)[0:10]) * multiplier, times 100
Threshold(levels, multiplier) ==
  (SumLowest(levels, NOISE_LOWEST) * multiplier * 10) \div Min(NOISE_LOWEST, Len(levels))

\* set_noise_threshold without the assignment: the threshold stays as it was
keep_noise_threshold(h) ==
  /\ TH(h).pc = "thr"
  /\ Put(h, NP(h), At(h, "gate"))
  /\ UNCHANGED << schedVars, threshold_multiplier, noiseVars, stream_active, now, raised >>
  /\ UNCHANGED outerVars

\* self._noise_threshold = np.average(sorted(self._noise_levels)[0:10]) * self._threshold_multiplier
set_noise_threshold(h) ==
  /\ TH(h).pc = "thr"
  /\ noise_threshold' = Threshold(noise_levels, threshold_multiplier)
  /\ Put(h, NP(h), At(h, "gate"))
  /\ UNCHANGED << schedVars, threshold_multiplier, noise_levels, audio_buf,
                  stream_active, now, raised >>
  /\ UNCHANGED outerVars

\* if peak > self._noise_threshold
GatePasses(peak, threshold) == peak * 100 > threshold

\* Matches without the comparison: every note heard counts as the target
MatchesAlways(freq, np) == TRUE

\* if Note.freq_to_midi(freq) == note_practice.target_note.midi
Matches(freq, np) == freq_to_midi(freq) = np.target_note.midi

\* lines 432-434: the gate, num_notes_heard += 1 and the comparison
gate(h) ==
  /\ TH(h).pc = "gate"
  /\ IF GatePasses(TH(h).peak, noise_threshold)
     THEN Put(h, [NP(h) EXCEPT !.num_notes_heard = @ + 1],
              At(h, IF Matches(TH(h).freq, NP(h)) THEN "succ" ELSE "loop"))
     ELSE Put(h, NP(h), At(h, "loop"))
  /\ UNCHANGED << schedVars, threshold_multiplier, noiseVars, stream_active, now, raised >>
  /\ UNCHANGED outerVars

\* elapsed_time that goes on counting after the attempt is complete
elapsed_time_live(np, time) == time - np.start_timestamp

\* NotePractice.elapsed_time, read when time.time() returns time
elapsed_time(np, time) ==
  IF np.complete = TRUE
  THEN np.success_timestamp - np.start_timestamp
  ELSE time - np.start_timestamp

\* the setter of NotePractice.success_timestamp
SuccessTimestampRaises(np, value) ==
  value <= np.start_timestamp \/ np.success_timestamp # 0

\* note_practice.success_timestamp = time.time()
set_success_timestamp(h) ==
  /\ TH(h).pc = "succ"
  /\ IF SuccessTimestampRaises(NP(h), now)
     THEN Put(h, NP(h), At(h, "crashed"))
     ELSE Put(h, [NP(h) EXCEPT !.success_timestamp = now], At(h, "compl"))
  /\ UNCHANGED << schedVars, threshold_multiplier, noiseVars, stream_active, now, raised >>
  /\ UNCHANGED outerVars

\* the setter of NotePractice.complete, called with True
CompleteRaises(np) == ~(np.complete = FALSE)

\* note_practice.complete = True
set_complete(h) ==
  /\ TH(h).pc = "compl"
  /\ IF CompleteRaises(NP(h))
     THEN Put(h, NP(h), At(h, "crashed"))
     ELSE Put(h, [NP(h) EXCEPT !.complete = TRUE], At(h, "stop"))
  /\ UNCHANGED << schedVars, threshold_multiplier, noiseVars, stream_active, now, raised >>
  /\ UNCHANGED outerVars

\* stop_stream without the stop and the break: the loop goes on
stop_stream_no_break(h) ==
  /\ TH(h).pc = "stop"
  /\ Put(h, NP(h), At(h, "loop"))
  /\ UNCHANGED << schedVars, threshold_multiplier, noiseVars, stream_active, now, raised >>
  /\ UNCHANGED outerVars

\* self._audio_stream.stop_stream(); break
stop_stream(h) ==
  /\ TH(h).pc = "stop"
  /\ stream_active' = FALSE
  /\ Put(h, NP(h), At(h, "done"))
  /\ UNCHANGED << schedVars, threshold_multiplier, noiseVars, now, raised >>
  /\ UNCHANGED outerVars

(***************************************************************************)
(* Inputs.                                                                 *)
(***************************************************************************)
\* the bin nearest to the frequency of a midi value of the catalog's first notes
NearestBin(midi) ==
  CHOOSE i \in fft_imin..(fft_imax - 1) :
    /\ freq_to_midi(fft_freqs(i)) = midi
    /\ \A j \in fft_imin..(i - 1) : freq_to_midi(fft_freqs(j)) # midi

\* magnitudes, relative to the initial noise level: silence; a reading that,
\* after one silent block and with the multiplier 1.0, lies between the
\* threshold computed with it (0.9448) and without it (0.95); a loud note
QuietPeak == NOISE_INITIAL \div 2
EdgePeak == (NOISE_INITIAL * 948) \div 1000
LoudPeak == NOISE_INITIAL * 2

\* the last bin of the band, which no note of the modelled topics maps to
OffBin == fft_imax - 1

\* what a block may hold while np is listened for: the requested note or
\* another one played loudly, the requested note played softly, and silence
Blocks(np) ==
  [bin : {NearestBin(np.target_note.midi), OffBin}, peak : {LoudPeak}] \cup
  [bin : {NearestBin(np.target_note.midi)}, peak : {QuietPeak, EdgePeak}]

\* the same, for the first MaxBlocks reads
BoundedBlocks(np) == IF now <= MaxBlocks THEN Blocks(np) ELSE {}

\* the same, for the first MaxListenBlocks reads
ListenBlocks(np) == IF now <= MaxListenBlocks THEN Blocks(np) ELSE {}

\* the blocks on the requested note, quiet or loud, for the first
\* MaxListenBlocks reads
TuneBlocks(np) ==
  IF now <= MaxListenBlocks
  THEN [bin : {NearestBin(np.target_note.midi)}, peak : {QuietPeak, LoudPeak}]
  ELSE {}

\* the loud blocks, on the requested note or off it, for the first MaxBlocks
\* reads
LoudBlocks(np) ==
  IF now <= MaxBlocks
  THEN [bin : {NearestBin(np.target_note.midi), OffBin}, peak : {LoudPeak}]
  ELSE {}

\* the block of a player who plays the requested note loudly
GoodBlocks(np) == [bin : {NearestBin(np.target_note.midi)}, peak : {LoudPeak}]

TopicInputs == (0 - 1)..(NumTopics - 1)
MethodInputs == {ADD_NOTES_INCREMENTALLY, ADD_NOTES_ALL_AT_ONCE}
IncrementInputs == {1, 2}
MultiplierInputs == {10, 30}
TimeInputs == 0..MaxTime

\* midi values inside the band of the guitar and on both sides of it
MidiProbes == 0..MaxMidi

\* bins outside the band: the lowest, the two next to the band, the highest
OutOfBandBins == {0, fft_imin - 1, fft_imax, SAMPLE_SIZE \div 2}

\* spectra with energy in one bin up to MaxBin and in one bin outside the
\* band, either of them the louder
SpectrumProbes ==
  {[i \in {a, b} |-> IF i = a THEN 2 ELSE m] :
     a \in 0..MaxBin, b \in OutOfBandBins, m \in {1, 3}}

\* values on both sides of what the setters of the configuration accept
TopicProbes == (0 - NumTopics - 1)..(NumTopics + 1)
MethodProbes == (0 - 1)..2
IncrementProbes == {0, 1, 100, 101}
MultiplierProbes == {5, 10, 30, 35}
HeardInputs == 0..MaxHeard

(***************************************************************************)
(* MainGUI: the Start button and the callbacks scheduled with after().  A   *)
(* handler runs to its end on the thread of the window.                    *)
(***************************************************************************)
\* self._trainer.current_note_practice.complete, of an attempt that exists
CurrentComplete == practiced_notes[Len(practiced_notes)].complete = TRUE

\* the test of _start_training without the flag
StartGuardNoFlag ==
  IF Len(practiced_notes) = 0 THEN TRUE ELSE CurrentComplete

\* not self._in_training and (current_note_practice is None or
\* current_note_practice.complete)
StartGuard ==
  /\ ~in_training
  /\ IF Len(practiced_notes) = 0 THEN TRUE ELSE CurrentComplete

\* check_note_practice_status that does not call itself again with after()
check_note_practice_status_once(training, complete, pending) ==
  IF training
  THEN IF complete
       THEN [in_training |-> FALSE,
             after_calls |-> [pending EXCEPT !.start = @ + 1]]
       ELSE [in_training |-> TRUE, after_calls |-> pending]
  ELSE [in_training |-> training, after_calls |-> pending]

\* MainGUI._check_note_practice_status with the flag and the attempt it finds:
\* the flag and the pending callbacks it leaves
check_note_practice_status(training, complete, pending) ==
  IF training
  THEN IF complete
       THEN [in_training |-> FALSE,
             after_calls |-> [pending EXCEPT !.start = @ + 1]]
       ELSE [in_training |-> TRUE,
             after_calls |-> [pending EXCEPT !.check = @ + 1]]
  ELSE [in_training |-> training, after_calls |-> pending]

\* MainGUI._start_training, the callbacks other than the one that runs being
\* pending
start_training(pending) ==
  IF StartGuard
  THEN /\ new_note_practice
       /\ LET status == check_note_practice_status(
                          TRUE, practiced_notes'[Len(practiced_notes')].complete = TRUE,
                          pending)
          IN  /\ in_training' = status.in_training
              /\ after_calls' = status.after_calls
       /\ UNCHANGED probe
  ELSE /\ after_calls' = pending
       /\ UNCHANGED << trainerVars, raised, in_training, probe >>

\* the Start button: command=self._start_training
click_start == start_training(after_calls)

\* after(1000, self._start_training) comes due
after_start ==
  /\ after_calls.start > 0
  /\ start_training([after_calls EXCEPT !.start = @ - 1])

\* after(50, self._check_note_practice_status) comes due
after_check ==
  /\ after_calls.check > 0
  /\ LET pending == [after_calls EXCEPT !.check = @ - 1]
     IN  IF in_training /\ Len(practiced_notes) = 0
         THEN /\ raised' = "AttributeError"
              /\ after_calls' = pending
              /\ UNCHANGED in_training
         ELSE LET status == check_note_practice_status(
                              in_training,
                              IF Len(practiced_notes) = 0 THEN FALSE ELSE CurrentComplete,
                              pending)
              IN  /\ in_training' = status.in_training
                  /\ after_calls' = status.after_calls
                  /\ UNCHANGED raised
  /\ UNCHANGED << trainerVars, probe >>

(***************************************************************************)
(* Specifications.  Next is every use of the Trainer; the claims are        *)
(* checked under restrictions of it, each of which leaves actions out or   *)
(* guards them, so that its behaviours are behaviours of Next with larger  *)
(* bounds.                                                                 *)
(***************************************************************************)
\* the steps of the capture threads, a block being one of blocks(np)
Capture(h, blocks(_)) ==
  \/ start_stream(h)
  \/ set_start_timestamp(h)
  \/ loop_test(h)
  \/ \E b \in blocks(NP(h)) : read_block(h, b)
  \/ analyse(h)
  \/ noise_popleft(h)
  \/ noise_append(h)
  \/ set_noise_threshold(h)
  \/ gate(h)
  \/ set_success_timestamp(h)
  \/ set_complete(h)
  \/ stop_stream(h)

\* the attempts whose thread has been created and not forgotten
Created == Len(practiced_notes) + Len(orphans)

\* no capture thread is running
Idle == \A h \in Handles : ~Alive(TH(h))

Next ==
  \/ Created < MaxAttempts /\ new_note_practice /\ UNCHANGED outerVars
  \/ \E v \in TopicInputs : set_current_topic(v)
  \/ \E v \in MethodInputs : set_add_notes_method(v)
  \/ \E v \in IncrementInputs : set_add_notes_increment(v)
  \/ \E v \in MultiplierInputs : set_threshold_multiplier(v)
  \/ kill_current_note_practice
  \/ \E h \in Handles : Capture(h, BoundedBlocks)

Spec == Init /\ [][Next]_vars

\* The scheduler alone: notes are requested at any time and no capture thread
\* is scheduled, so every attempt stays as it was created.  The increment is
\* set before the first request; the topic and the mode are switched before
\* the second.
NextSched ==
  \/ /\ Created < (IF add_notes_method = ADD_NOTES_ALL_AT_ONCE
                   THEN MaxSchedAttempts ELSE MaxIncAttempts)
     /\ new_note_practice /\ UNCHANGED outerVars
  \/ Created <= 1 /\ \E v \in TopicInputs : set_current_topic(v)
  \/ Created <= 1 /\ \E v \in MethodInputs : set_add_notes_method(v)
  \/ Created = 0 /\ \E v \in IncrementInputs : set_add_notes_increment(v)

SpecSched == Init /\ [][NextSched]_vars

\* The scheduler alone with all the notes of the initial topic in play at once
\* (the mode is set before the first request), over a longer history.
NextFair ==
  \/ Created = 0 /\ set_add_notes_method(ADD_NOTES_ALL_AT_ONCE)
  \/ /\ add_notes_method = ADD_NOTES_ALL_AT_ONCE
     /\ Created < MaxFairAttempts
     /\ new_note_practice /\ UNCHANGED outerVars

SpecFair == Init /\ [][NextFair]_vars

\* Incremental practice of the first topic with a constant increment, both
\* set before the first request: a note is requested when no capture thread
\* runs and the player plays every requested note.
NextGrowth ==
  \/ Created = 0 /\ set_current_topic(0)
  \/ Created = 0 /\ \E v \in IncrementInputs : set_add_notes_increment(v)
  \/ topic = 0 /\ Idle /\ Created < MaxGrowthAttempts /\ new_note_practice /\ UNCHANGED outerVars
  \/ \E h \in Handles : Capture(h, GoodBlocks)

SpecGrowth == Init /\ [][NextGrowth]_vars

\* The same, with attempts that the caller terminates at any time, each at
\* most once.
NextSkip ==
  \/ Created = 0 /\ set_current_topic(0)
  \/ Created = 0 /\ \E v \in IncrementInputs : set_add_notes_increment(v)
  \/ topic = 0 /\ Idle /\ Created < MaxSkipAttempts /\ new_note_practice /\ UNCHANGED outerVars
  \/ /\ Len(practiced_notes) > 0
     /\ ~practiced_notes[Len(practiced_notes)].terminate
     /\ kill_current_note_practice
  \/ \E h \in Handles : Capture(h, GoodBlocks)

SpecSkip == Init /\ [][NextSkip]_vars

\* One capture thread at a time, listening to any blocks: all notes are in
\* play at once and the multiplier is constant (both are set before the first
\* request), a note is requested when no capture thread runs, and no attempt
\* is terminated.
NextListen ==
  \/ Created = 0 /\ set_add_notes_method(ADD_NOTES_ALL_AT_ONCE)
  \/ Created = 0 /\ \E v \in MultiplierInputs : set_threshold_multiplier(v)
  \/ /\ add_notes_method = ADD_NOTES_ALL_AT_ONCE
     /\ Idle
     /\ Created < MaxListenAttempts
     /\ new_note_practice /\ UNCHANGED outerVars
  \/ \E h \in Handles : Capture(h, ListenBlocks)

SpecListen == Init /\ [][NextListen]_vars

\* The capture threads under every interleaving, all notes in play at once
\* (the mode is set before the first request): a request starts a thread
\* whatever the earlier threads are doing, and every block is loud.
NextCapture ==
  \/ Created = 0 /\ set_add_notes_method(ADD_NOTES_ALL_AT_ONCE)
  \/ add_notes_method = ADD_NOTES_ALL_AT_ONCE /\ Created < MaxAttempts /\ new_note_practice /\ UNCHANGED outerVars
  \/ kill_current_note_practice
  \/ \E h \in Handles : Capture(h, LoudBlocks)

SpecCapture == Init /\ [][NextCapture]_vars

\* no attempt is active and incomplete: there is no attempt yet, or the
\* current one is complete or terminated
NoActiveAttempt ==
  IF Len(practiced_notes) = 0
  THEN TRUE
  ELSE LET np == practiced_notes[Len(practiced_notes)]
       IN  np.complete = TRUE \/ np.terminate = TRUE

\* The use of the Trainer that its callers are held to: a note is requested
\* only when no attempt is active and incomplete, and an attempt is
\* terminated at most once.  The thread of a complete or terminated attempt
\* may still be running when the next one starts.
NextProper ==
  \/ Created = 0 /\ set_add_notes_method(ADD_NOTES_ALL_AT_ONCE)
  \/ /\ add_notes_method = ADD_NOTES_ALL_AT_ONCE
     /\ NoActiveAttempt
     /\ Created < MaxAttempts
     /\ new_note_practice /\ UNCHANGED outerVars
  \/ /\ Len(practiced_notes) > 0
     /\ ~practiced_notes[Len(practiced_notes)].terminate
     /\ kill_current_note_practice
  \/ \E h \in Handles : Capture(h, LoudBlocks)

SpecProper == Init /\ [][NextProper]_vars

\* One capture thread at a time, listening to loud blocks, with attempts that
\* the caller terminates at any time, each at most once: all notes are in
\* play at once and a note is requested when no capture thread runs.
NextCancel ==
  \/ Created = 0 /\ set_add_notes_method(ADD_NOTES_ALL_AT_ONCE)
  \/ /\ add_notes_method = ADD_NOTES_ALL_AT_ONCE
     /\ Idle
     /\ Created < MaxCancelAttempts
     /\ new_note_practice /\ UNCHANGED outerVars
  \/ /\ Len(practiced_notes) > 0
     /\ ~practiced_notes[Len(practiced_notes)].terminate
     /\ kill_current_note_practice
  \/ \E h \in Handles : Capture(h, LoudBlocks)

SpecCancel == Init /\ [][NextCancel]_vars

\* The setters of one attempt called in any order with any values: the
\* attempt is requested once and its capture thread is not scheduled.
NextSetters ==
  \/ Created = 0 /\ set_add_notes_method(ADD_NOTES_ALL_AT_ONCE)
  \/ add_notes_method = ADD_NOTES_ALL_AT_ONCE /\ Created = 0 /\ new_note_practice /\ UNCHANGED outerVars
  \/ \E v \in BOOLEAN : call_terminate(v)
  \/ \E v \in BOOLEAN : call_complete(v)
  \/ \E v \in HeardInputs : call_num_notes_heard(v)
  \/ \E v \in TimeInputs : call_start_timestamp(v)
  \/ \E v \in TimeInputs : call_success_timestamp(v)

SpecSetters == Init /\ [][NextSetters]_vars

\* One capture thread at a time, listening to quiet and loud blocks while the
\* caller moves the multiplier at any time: all notes are in play at once, a note is
\* requested when no capture thread runs, and no attempt is terminated.
NextTune ==
  \/ Created = 0 /\ set_add_notes_method(ADD_NOTES_ALL_AT_ONCE)
  \/ \E v \in MultiplierInputs : set_threshold_multiplier(v)
  \/ /\ add_notes_method = ADD_NOTES_ALL_AT_ONCE
     /\ Idle
     /\ Created < MaxTuneAttempts
     /\ new_note_practice /\ UNCHANGED outerVars
  \/ \E h \in Handles : Capture(h, TuneBlocks)

SpecTune == Init /\ [][NextTune]_vars

\* The configuration set to any value at any time, valid or not, around the
\* requests of the scheduler, which are made while all notes are to be in
\* play at once; no capture thread is scheduled.
NextConfig ==
  \/ /\ add_notes_method = ADD_NOTES_ALL_AT_ONCE
     /\ Created < MaxConfigAttempts
     /\ new_note_practice /\ UNCHANGED outerVars
  \/ \E v \in TopicProbes : set_current_topic(v)
  \/ \E v \in MethodProbes : set_add_notes_method(v)
  \/ \E v \in IncrementProbes : set_add_notes_increment(v)
  \/ \E v \in MultiplierProbes : set_threshold_multiplier(v)

SpecConfig == Init /\ [][NextConfig]_vars

\* One capture thread at a time as in NextCancel, with an audio source whose
\* reads may fail.
NextFaults ==
  \/ Created = 0 /\ set_add_notes_method(ADD_NOTES_ALL_AT_ONCE)
  \/ /\ add_notes_method = ADD_NOTES_ALL_AT_ONCE
     /\ Idle
     /\ Created < MaxCancelAttempts
     /\ new_note_practice /\ UNCHANGED outerVars
  \/ /\ Len(practiced_notes) > 0
     /\ ~practiced_notes[Len(practiced_notes)].terminate
     /\ kill_current_note_practice
  \/ \E h \in Handles : Capture(h, LoudBlocks)
  \/ \E h \in Handles : read_error(h)

SpecFaults == Init /\ [][NextFaults]_vars

\* The Trainer used through the window: all notes are in play at once (the
\* mode is chosen before the first request), Start is clicked at any time,
\* the callbacks come due in any order, and the player plays every requested
\* note.
StartAllowed ==
  StartGuard => add_notes_method = ADD_NOTES_ALL_AT_ONCE /\ Created < MaxGuiAttempts

NextGUI ==
  \/ Created = 0 /\ set_add_notes_method(ADD_NOTES_ALL_AT_ONCE)
  \/ StartAllowed /\ click_start
  \/ StartAllowed /\ after_start
  \/ after_check
  \/ \E h \in Handles : Capture(h, GoodBlocks)

SpecGUI == Init /\ [][NextGUI]_vars

\* The same with the main loop of the window running: a callback that is due
\* is called, and so is the next one, as long as the window is not closed.
SpecGUILive ==
  /\ Init
  /\ [][NextGUI]_vars
  /\ WF_vars(after_check)
  /\ WF_vars(StartAllowed /\ after_start)

\* The functions of the module called with any value.
NextValues ==
  \/ \E midi \in MidiProbes : construct_note(midi)
  \/ \E midi \in MidiProbes : convert_midi(midi)
  \/ \E spectrum \in SpectrumProbes : find_dominant(spectrum)

SpecValues == Init /\ [][NextValues]_vars

(***************************************************************************)
(* The claims.                                                             *)
(***************************************************************************)
\* no reset is pending: the last request is later than every switch
Settled == ~topic_changed /\ ~add_notes_method_changed

\* C1 (SpecSched): no immediate repeat - no two consecutive attempts of the
\* history have the same target note.
C1_NoImmediateRepeat ==
  \A i \in 1..(Len(practiced_notes) - 1) :
    practiced_notes[i + 1].target_note # practiced_notes[i].target_note

\* the history is long enough for a choice among the least practiced notes
C1_Witness == Len(practiced_notes) > 4

\* the number of times note was a target in the most recent
\* min(Len(prior), 5 * |play|) attempts of prior
C2_Count(note, play, prior) ==
  Cardinality({i \in 1..Len(prior) :
                 i > Len(prior) - 5 * Len(play) /\ prior[i].target_note = note})

\* the notes in play other than the target of the last attempt of prior
C2_Others(play, prior) == Range(play) \ {prior[Len(prior)].target_note}

C3_Selected(note) ==
  Cardinality({i \in 1..Len(practiced_notes) : practiced_notes[i].target_note = note})

\* C3 (SpecFair): fairness - with all notes in play at once and at least 4
\* attempts in the history, no note's selection count deviates from the mean
\* selection count of the notes in play by as much as a fixed bound, here 2
\* (the deviation times the number of notes is below twice that number).
C3_Fairness ==
  (add_notes_method = ADD_NOTES_ALL_AT_ONCE /\ Settled /\ Len(practiced_notes) >= 4) =>
    \A x \in Range(notes_in_play) :
      LET d == Len(notes_in_play) * C3_Selected(x) - Len(practiced_notes)
      IN  (0 - 2) * Len(notes_in_play) < d /\ d < 2 * Len(notes_in_play)

\* every attempt of the history but the newest is complete
C4_PriorComplete ==
  \A i \in 1..(Len(practiced_notes) - 1) : practiced_notes[i].complete

\* the notes in play after n requests with the increment k: the 3 seeded and
\* one more for every k attempts that precede the last request, while the
\* topic has notes left
C4_PlayAfter(n, k) == 3 + Min(Len(TopicNotes(topic)) - 3, (n - 1) \div k)

\* a request that follows completed attempts only moves one note from the
\* queue to the end of the notes in play when the number of attempts is a
\* multiple of the increment and the queue is not empty, and nothing otherwise;
\* no other step changes the notes in play or the queue
C4_Step ==
  LET n == Len(practiced_notes)
  IN  IF Len(practiced_notes') = n + 1 /\ n >= 1
      THEN (\A i \in 1..n : practiced_notes[i].complete) =>
             IF n % add_notes_increment = 0 /\ notes_in_queue # << >>
             THEN \E x \in Range(notes_in_queue) :
                    /\ notes_in_play' = Append(notes_in_play, x)
                    /\ Len(notes_in_queue') = Len(notes_in_queue) - 1
                    /\ Range(notes_in_queue') = Range(notes_in_queue) \ {x}
             ELSE notes_in_play' = notes_in_play /\ notes_in_queue' = notes_in_queue
      ELSE Len(practiced_notes') = n =>
             notes_in_play' = notes_in_play /\ notes_in_queue' = notes_in_queue

C5_IncrementalSeeding ==
  (Len(practiced_notes) = 1 /\ Settled /\ add_notes_method = ADD_NOTES_INCREMENTALLY) =>
    /\ Len(notes_in_play) = 3
    /\ Cardinality(Range(notes_in_play)) = 3
    /\ Range(notes_in_play) \subseteq Range(TopicNotes(topic))
    /\ Range(notes_in_queue) = Range(TopicNotes(topic)) \ Range(notes_in_play)
    /\ Len(notes_in_queue) = Len(TopicNotes(topic)) - 3
    /\ practiced_notes[1].target_note \in Range(notes_in_play)

\* the first attempt after the other topic was selected while an attempt on
\* the initial topic was in the history
C5_Witness ==
  /\ Len(practiced_notes) = 1
  /\ Settled
  /\ add_notes_method = ADD_NOTES_INCREMENTALLY
  /\ topic = 0
  /\ Len(orphans) = 1

\* a request that is not a reset moves a note from the queue into play
C6_Grows ==
  /\ Len(practiced_notes) >= 1
  /\ Len(practiced_notes') = Len(practiced_notes) + 1
  /\ Len(notes_in_play') = Len(notes_in_play) + 1

\* the completed attempts since the last reset
C6_Completed == Cardinality({i \in 1..Len(practiced_notes) : practiced_notes[i].complete})

\* C6 as stated (SpecSkip): a note is moved from the queue into play only when
\* the number of completed attempts since the last reset is a positive
\* multiple of add_notes_increment.
C6_CountsCompleted ==
  [][C6_Grows => C6_Completed > 0 /\ C6_Completed % add_notes_increment = 0]_vars

\* C6 as amended (SpecSkip): a note is moved from the queue into play only
\* when the number of attempts requested since the last reset, completed or
\* not, is a positive multiple of add_notes_increment.
C6_CountsAttempts ==
  [][C6_Grows => Len(practiced_notes) % add_notes_increment = 0]_vars

\* a note has been added while a terminated attempt that never completed was
\* in the history
C6_Witness ==
  /\ Len(notes_in_play) > 3
  /\ \E i \in 1..(Len(practiced_notes) - 1) :
       practiced_notes[i].terminate /\ ~practiced_notes[i].complete

\* C7 (SpecSched): all-at-once mode - from the first request that follows a
\* topic or mode change until the next change, the notes in play are the
\* selected topic's notes in their order and the queue is empty.
C7_AllAtOnce ==
  (add_notes_method = ADD_NOTES_ALL_AT_ONCE /\ Settled) =>
    notes_in_play = TopicNotes(topic) /\ notes_in_queue = << >>

\* further attempts in all-at-once mode after a switch from incremental mode
C7_Witness ==
  /\ add_notes_method = ADD_NOTES_ALL_AT_ONCE
  /\ Settled
  /\ Len(practiced_notes) >= 2
  /\ Len(orphans) = 1

\* the notes in play and in queue are a seed of the selected topic
C8_Seed(play, queue) ==
  IF add_notes_method = ADD_NOTES_INCREMENTALLY
  THEN /\ Len(play) = 3
       /\ Cardinality(Range(play)) = 3
       /\ Range(play) \subseteq Range(TopicNotes(topic))
       /\ Range(queue) = Range(TopicNotes(topic)) \ Range(play)
       /\ Len(queue) = Len(TopicNotes(topic)) - 3
  ELSE play = TopicNotes(topic) /\ queue = << >>

\* C8 (SpecSched): a switch of the topic or of the mode resets the session at
\* the request that follows it - that request leaves a history of one attempt,
\* notes in play and in queue seeded from the selected topic as the mode has
\* it, and a target that is any note of the seed.
C8_SwitchResets ==
  [][((topic_changed \/ add_notes_method_changed) /\ ~topic_changed' /\ ~add_notes_method_changed')
       => /\ Len(practiced_notes') = 1
          /\ C8_Seed(notes_in_play', notes_in_queue')
          /\ practiced_notes'[1].target_note \in Range(notes_in_play')
          /\ topic' = topic /\ add_notes_method' = add_notes_method]_vars

\* the first attempt after a switch repeats the target of the attempt that the
\* switch dropped from the history
C8_Witness ==
  /\ Len(practiced_notes) = 1
  /\ Settled
  /\ Len(orphans) = 1
  /\ orphans[1].np.target_note = practiced_notes[1].target_note

\* thread i makes the comparison of line 432
C9_GateStep(i) == threads[i].pc = "gate" /\ threads'[i].pc # "gate"

\* thread i finds its block above the threshold: it counts a note heard
C9_Passes(i) == practiced_notes'[i].num_notes_heard = practiced_notes[i].num_notes_heard + 1

\* the window before the last reading was folded in, while fewer readings
\* than the window is long were folded in
C9_WindowBefore == << NOISE_INITIAL >> \o SubSeq(noise_levels, 1, Len(noise_levels) - 1)

\* the threshold before the last reading was folded in: the initial one for
\* the first block
C9_ThresholdBefore ==
  IF now = 2 THEN NOISE_INITIAL * 100 ELSE Threshold(C9_WindowBefore, threshold_multiplier)

C10_Step(i) ==
  LET np == practiced_notes[i]
      th == threads[i]
      passes == th.pc = "gate" /\ th.peak * 100 > noise_threshold
  IN  /\ (practiced_notes'[i].complete /\ ~np.complete) =>
            /\ th.peak * 100 > noise_threshold
            /\ freq_to_midi(th.freq) = np.target_note.midi
            /\ np.success_timestamp # 0
            /\ np.num_notes_heard >= 1
      /\ practiced_notes'[i].num_notes_heard # np.num_notes_heard =>
            passes /\ practiced_notes'[i].num_notes_heard = np.num_notes_heard + 1
      /\ (passes /\ threads'[i].pc # "gate") =>
            practiced_notes'[i].num_notes_heard = np.num_notes_heard + 1
      /\ (np.complete /\ Alive(th) /\ ~Alive(threads'[i])) =>
            threads'[i].pc = "done" /\ ~stream_active'

\* C10 (SpecListen): an attempt becomes complete only in an iteration whose
\* block passed the gate and whose frequency maps to the target's midi value;
\* the success time is then set, the thread leaves the loop and stops the
\* stream; num_notes_heard grows by one for every block that passes the gate
\* and not otherwise, so a complete attempt has heard at least one note.
C10_Completion ==
  /\ [][\A i \in 1..Len(practiced_notes) : i <= Len(practiced_notes') => C10_Step(i)]_vars
  /\ [](\A i \in 1..Len(practiced_notes) :
          practiced_notes[i].complete =>
            /\ practiced_notes[i].num_notes_heard >= 1
            /\ practiced_notes[i].success_timestamp > practiced_notes[i].start_timestamp
            /\ threads[i].pc \in {"stop", "done"})

\* an attempt completed after another loud note was heard first
C10_Witness ==
  \E i \in 1..Len(practiced_notes) :
    practiced_notes[i].complete /\ practiced_notes[i].num_notes_heard >= 2

\* the capture threads that have been started and have not ended
AliveThreads == {h \in Handles : Alive(TH(h))}

\* C11 (SpecCapture): exactly one capture worker is active at a time - in
\* every reachable state at most one capture thread is alive, because a
\* request made while the current attempt is listening starts no thread.
C11_OneWorker == Cardinality(AliveThreads) <= 1

\* C12 (SpecProper): the capture loop of an attempt runs until the attempt
\* is complete or terminated - no thread has left its loop while its attempt
\* is neither complete nor terminated.
C12_RunsToTheEnd ==
  \A h \in Handles :
    TH(h).pc = "done" => NP(h).complete \/ NP(h).terminate

\* what a step does to attempt i and its thread once terminate is set
C13_Step(i) ==
  LET np == practiced_notes[i]
      th == threads[i]
      np2 == practiced_notes'[i]
      th2 == threads'[i]
  IN  /\ (np.terminate /\ th.pc # "read") => th2.pc # "read"
      /\ (np.terminate /\ th.pc = "loop" /\ th2 # th) =>
            th2.pc = "done" /\ np2 = np
      /\ th.pc = "done" =>
            /\ th2 = th
            /\ np2.complete = np.complete
            /\ np2.success_timestamp = np.success_timestamp

\* C13 (SpecCancel), as amended: once terminate is set on an attempt its
\* thread reads at most the one block it was about to read, and a thread that
\* finds terminate set at its loop test leaves the loop there and never sets
\* complete or the success time; the iteration in flight when the flag was
\* set runs to its end and may complete the attempt.
C13_Cancellation ==
  [][\A i \in 1..Len(practiced_notes) : i <= Len(practiced_notes') => C13_Step(i)]_vars

\* C13 (SpecCancel), as stated: an attempt on which terminate is set is not
\* marked complete afterwards.
C13_StopsIncomplete ==
  [][\A i \in 1..Len(practiced_notes) :
       (i <= Len(practiced_notes') /\ practiced_notes[i].terminate
                                   /\ ~practiced_notes[i].complete)
          => ~practiced_notes'[i].complete]_vars

\* a terminated attempt whose thread has left the loop after a block that did
\* not match, the attempt incomplete
C13_Witness ==
  \E i \in 1..Len(practiced_notes) :
    /\ practiced_notes[i].terminate
    /\ ~practiced_notes[i].complete
    /\ practiced_notes[i].num_notes_heard >= 1
    /\ threads[i].pc = "done"

\* C14 (SpecCancel): the stream is started and stopped per attempt by the
\* worker of the attempt - every worker stops the stream before it exits, on
\* completion and on termination alike, so once attempts have been made and
\* no capture thread is running the stream is stopped.
C14_StoppedWhenIdle ==
  (Len(practiced_notes) > 0 /\ Idle) => ~stream_active

\* a setter call that must fail: it raises and leaves the attempt as it was
C15_Fails(np, r) == r.raised = "ValueError" /\ r.np = np

\* the four guards, for an attempt np and every value a caller may pass
C15_Guards(np) ==
  /\ np.start_timestamp # 0 =>
        \A v \in TimeInputs : C15_Fails(np, start_timestamp_setter(np, v))
  /\ \A v \in TimeInputs :
        (v <= np.start_timestamp \/ np.success_timestamp # 0) =>
            C15_Fails(np, success_timestamp_setter(np, v))
  /\ np.complete => \A v \in BOOLEAN : C15_Fails(np, complete_setter(np, v))
  /\ np.terminate => \A v \in BOOLEAN : C15_Fails(np, terminate_setter(np, v))

\* C15 (SpecSetters): setting the start time when it is set, the success time
\* to a value not after the start time or when it is set, complete when
\* complete and terminate when terminated all raise and leave every field of
\* the attempt unchanged; a call that raises changes no field, and complete
\* and terminate never go back from true to false.
C15_SingleTransition ==
  /\ [](\A i \in 1..Len(practiced_notes) : C15_Guards(practiced_notes[i]))
  /\ [][\A i \in 1..Len(practiced_notes) :
          i <= Len(practiced_notes') =>
            /\ raised' = "ValueError" => practiced_notes'[i] = practiced_notes[i]
            /\ practiced_notes[i].complete => practiced_notes'[i].complete
            /\ practiced_notes[i].terminate => practiced_notes'[i].terminate]_vars

\* an attempt with every field set, on which a further call has failed
C15_Witness ==
  /\ raised = "ValueError"
  /\ \E i \in 1..Len(practiced_notes) :
        /\ practiced_notes[i].complete
        /\ practiced_notes[i].terminate
        /\ practiced_notes[i].start_timestamp # 0
        /\ practiced_notes[i].success_timestamp # 0

\* C16 (SpecSetters): state order - whatever setters are called, an attempt
\* is complete only with its start time set, and a success time that is set
\* is later than a start time that is set too.
C16_StateOrder ==
  \A i \in 1..Len(practiced_notes) :
    LET np == practiced_notes[i]
    IN  /\ np.complete => np.start_timestamp # 0
        /\ np.success_timestamp # 0 =>
              np.start_timestamp # 0 /\ np.success_timestamp > np.start_timestamp

\* what a step does to the flags of attempt i
C17_Step(i) ==
  LET np == practiced_notes[i]
      np2 == practiced_notes'[i]
  IN  /\ np.complete => np2.complete
      /\ np.terminate => np2.terminate
      /\ (np.complete /\ np2.terminate /\ ~np.terminate) => threads'[i] = threads[i]

\* C17 (SpecCancel), as amended: complete and terminate are one-way flags -
\* a complete attempt stays complete and its thread is stopping the stream or
\* has ended, so it reads no further block, and a terminated attempt stays
\* terminated; kill_current_note_practice sets terminate on a complete
\* attempt all the same, without any effect on its thread.
C17_OneWay ==
  /\ [](\A i \in 1..Len(practiced_notes) :
          practiced_notes[i].complete => threads[i].pc \in {"stop", "done"})
  /\ [][\A i \in 1..Len(practiced_notes) :
          i <= Len(practiced_notes') => C17_Step(i)]_vars

\* C17 (SpecCancel), as stated: no attempt is both complete and terminated.
C17_Exclusive ==
  \A i \in 1..Len(practiced_notes) :
    ~(practiced_notes[i].complete /\ practiced_notes[i].terminate)

\* an attempt that is complete and terminated, its thread ended
C17_Witness ==
  \E i \in 1..Len(practiced_notes) :
    /\ practiced_notes[i].complete
    /\ practiced_notes[i].terminate
    /\ threads[i].pc = "done"

\* the setter that the thread of attempt i is about to call does not raise
C18_GuardsPass(i) ==
  LET np == practiced_notes[i]
      pc == threads[i].pc
  IN  /\ pc = "stamp" => np.start_timestamp = 0
      /\ pc = "succ" => now > np.start_timestamp /\ np.success_timestamp = 0
      /\ pc = "compl" => np.complete = FALSE

\* each field of attempt i makes its one transition
C18_Step(i) ==
  LET np == practiced_notes[i]
      np2 == practiced_notes'[i]
  IN  /\ np2.start_timestamp # np.start_timestamp => np.start_timestamp = 0
      /\ np2.success_timestamp # np.success_timestamp =>
            /\ np.success_timestamp = 0
            /\ np2.success_timestamp > np.start_timestamp
            /\ np.start_timestamp # 0
      /\ np2.complete # np.complete => np.complete = FALSE
      /\ np2.terminate # np.terminate => np.terminate = FALSE

\* C18 (SpecProper): under correct use - a note requested only when no
\* attempt is active and incomplete, an attempt terminated at most once - no
\* guard of an attempt is tripped by the scheduler or by a capture thread:
\* no call raises ValueError, the start time is set once, the success time at
\* most once and to a later time, complete at most once.
C18_NoViolation ==
  /\ [](raised # "ValueError")
  /\ [](\A i \in 1..Len(practiced_notes) : C18_GuardsPass(i))
  /\ [][\A i \in 1..Len(practiced_notes) :
          i <= Len(practiced_notes') => C18_Step(i)]_vars

\* two attempts whose threads ran side by side, the first terminated and the
\* second complete, both with their times set
C18_Witness ==
  /\ Len(practiced_notes) >= 2
  /\ practiced_notes[1].terminate
  /\ practiced_notes[1].start_timestamp # 0
  /\ practiced_notes[2].complete
  /\ practiced_notes[2].success_timestamp > practiced_notes[1].start_timestamp
  /\ threads[1].pc \in {"fft", "pop", "push", "thr", "gate"}

\* the window holds its capacity, but for the moment between the eviction and
\* the append of one update, and it is filled with the initial value before
\* the first block is read
C19_Capacity ==
  /\ Len(noise_levels) =
        IF \E i \in 1..Len(threads) : threads[i].pc = "push"
        THEN NOISE_WINDOW - 1 ELSE NOISE_WINDOW
  /\ now = 1 => noise_levels = [j \in 1..NOISE_WINDOW |-> NOISE_INITIAL]
  /\ \A i \in 1..Len(threads) :
        threads[i].pc \in {"thr", "gate"} => noise_levels[NOISE_WINDOW] = threads[i].peak

\* what a step does to the window
C19_Step ==
  IF \E i \in 1..Len(threads) : threads[i].pc = "pop" /\ threads'[i].pc = "push"
  THEN noise_levels' = Tail(noise_levels)
  ELSE IF \E i \in 1..Len(threads) : threads[i].pc = "push" /\ threads'[i].pc = "thr"
       THEN \E i \in 1..Len(threads) :
              /\ threads[i].pc = "push"
              /\ noise_levels' = Append(noise_levels, threads[i].peak)
       ELSE noise_levels' = noise_levels

\* C19 (SpecListen): the noise window starts as 50 entries of 100000 and
\* holds 50 entries after every processed block; each update drops the oldest
\* entry and appends the new reading as the newest, and no other step, the
\* derivation of the threshold included, changes the window or its order.
C19_NoiseWindow == []C19_Capacity /\ [][C19_Step]_vars

\* two readings that differ, folded in the order they were read, the older
\* initial entries before them
C19_Witness ==
  /\ Len(noise_levels) = NOISE_WINDOW
  /\ noise_levels[NOISE_WINDOW - 2] = NOISE_INITIAL
  /\ noise_levels[NOISE_WINDOW - 1] = LoudPeak
  /\ noise_levels[NOISE_WINDOW] = QuietPeak
  /\ \E i \in 1..Len(threads) : threads[i].pc = "gate"

\* the place of entry i among the entries of the window in rising order,
\* equal values in the order they stand
C20_Rank(levels, i) ==
  1 + Cardinality({j \in 1..Len(levels) :
                     levels[j] < levels[i] \/ (levels[j] = levels[i] /\ j < i)})

\* the sum of the entries up to i that are among the 10 smallest
RECURSIVE C20_SumRanked(_, _)
C20_SumRanked(levels, i) ==
  IF i = 0 THEN 0
  ELSE (IF C20_Rank(levels, i) <= 10 THEN levels[i] ELSE 0) + C20_SumRanked(levels, i - 1)

\* the multiplier times the mean of the 10 smallest entries, in the units of
\* noise_threshold
C20_Expected(levels, multiplier) ==
  (C20_SumRanked(levels, Len(levels)) * multiplier * 10) \div 10

\* what a step does to the threshold
C20_Step ==
  IF \E i \in 1..Len(threads) : threads[i].pc = "thr" /\ threads'[i].pc = "gate"
  THEN noise_threshold' = C20_Expected(noise_levels', threshold_multiplier')
  ELSE noise_threshold' = noise_threshold

\* C20 (SpecTune): every processed block sets noise_threshold to the current
\* multiplier times the mean of the 10 smallest entries of the window; a
\* change of the multiplier leaves the threshold as it is until the next
\* block is processed; and for every window a threshold is derived from, a
\* larger multiplier never gives a smaller threshold (each step of 0.1 from
\* 1.0 to 3.0).
C20_ThresholdDerivation ==
  /\ [][C20_Step]_vars
  /\ []((\E i \in 1..Len(threads) : threads[i].pc = "thr") =>
          \A m \in 10..29 :
            Threshold(noise_levels, m) <= Threshold(noise_levels, m + 1))

\* the multiplier raised after a quiet block was processed, the threshold
\* still the one derived with the old multiplier while the next block is read
C20_Witness ==
  /\ threshold_multiplier = 30
  /\ Len(noise_levels) = NOISE_WINDOW
  /\ noise_levels[NOISE_WINDOW] = QuietPeak
  /\ noise_threshold = C20_Expected(noise_levels, 10)
  /\ \E i \in 1..Len(threads) : threads[i].pc = "read"

\* C21 (SpecConfig): a topic index outside 0 .. number of topics - 1 is
\* rejected with an error and leaves the topic, its changed flag, the history
\* and the notes in play and in the queue as they were; an index inside is
\* accepted and selects that topic.
C21_TopicBounds ==
  [][\A v \in TopicProbes :
       set_current_topic(v) =>
         IF 0 <= v /\ v < NumTopics
         THEN raised' = "" /\ topic' = v /\ topic_changed'
         ELSE /\ raised' # ""
              /\ UNCHANGED << topic, topic_changed, practiced_notes,
                              notes_in_play, notes_in_queue >>]_vars

\* a rejected call: ValueError, and nothing but the exception changes
C22_Rejected ==
  /\ raised' = "ValueError"
  /\ UNCHANGED << schedVars, threshold_multiplier, practiced_notes, noiseVars,
                  threads, orphans, stream_active, now, outerVars >>

\* C22 (SpecConfig): a threshold multiplier outside 1.0 .. 3.0, an increment
\* outside 1 .. 100 and a method other than the two known ones are rejected
\* with ValueError and change nothing, the changed flag of the method
\* included; the values inside, 1.0, 3.0, 1 and 100 among them, are accepted
\* and become the value of the setting.
C22_ConfigRange ==
  [][/\ \A v \in MultiplierProbes :
          set_threshold_multiplier(v) =>
            IF 10 <= v /\ v <= 30
            THEN raised' = "" /\ threshold_multiplier' = v
            ELSE C22_Rejected
     /\ \A v \in IncrementProbes :
          set_add_notes_increment(v) =>
            IF 1 <= v /\ v <= 100
            THEN raised' = "" /\ add_notes_increment' = v
            ELSE C22_Rejected
     /\ \A v \in MethodProbes :
          set_add_notes_method(v) =>
            IF v \in {ADD_NOTES_INCREMENTALLY, ADD_NOTES_ALL_AT_ONCE}
            THEN raised' = "" /\ add_notes_method' = v
            ELSE C22_Rejected]_vars

\* a call rejected after the boundary values were accepted, with a history
\* and notes in play that the rejection left alone
C22_Witness ==
  /\ raised = "ValueError"
  /\ threshold_multiplier = 30
  /\ add_notes_increment = 100
  /\ add_notes_method_changed
  /\ Len(practiced_notes) > 0
  /\ Len(notes_in_play) > 0

\* C23 (SpecValues): constructing a Note with a midi value below 40 or above
\* 76 raises an error, so every Note that exists has its midi value in
\* 40 .. 76.
C23_NoteBand ==
  probe.call = "Note" =>
    /\ (probe.midi < MIDI_MIN \/ probe.midi > MIDI_MAX) => raised = "ValueError"
    /\ probe.value # NoteError =>
          MIDI_MIN <= probe.value.midi /\ probe.value.midi <= MIDI_MAX

\* C24 (SpecFaults): when reading a block fails in the capture loop, the
\* attempt ends terminated and not complete (terminate = true, complete =
\* false), which the polling caller can observe, instead of the worker
\* crashing.
C24_FailedReadTerminates ==
  \A h \in Handles :
    TH(h).pc = "crashed" => NP(h).terminate = TRUE /\ NP(h).complete = FALSE

\* elapsed_time of attempt i read before and after a step
C25_Step(i) ==
  LET np == practiced_notes[i]
      np2 == practiced_notes'[i]
  IN  /\ np.complete = TRUE =>
            /\ np.success_timestamp # 0
            /\ elapsed_time(np, now) = np.success_timestamp - np.start_timestamp
            /\ elapsed_time(np, now) > 0
            /\ elapsed_time(np2, now') = elapsed_time(np, now)
      /\ (np.start_timestamp # 0 /\ np.complete = FALSE /\ np2.complete = FALSE) =>
            /\ elapsed_time(np, now) = now - np.start_timestamp
            /\ elapsed_time(np2, now') >= elapsed_time(np, now)

\* C25 (SpecCancel): once an attempt is complete every read of elapsed_time
\* returns the same value success_time - start_time, which is strictly
\* positive, the success time being set whenever complete is true; while the
\* attempt is listening and not complete, elapsed_time is now - start_time
\* and does not decrease from one read to the next.
C25_ElapsedTime ==
  [][\A i \in 1..Len(practiced_notes) :
       i <= Len(practiced_notes') => C25_Step(i)]_vars

\* the first attempt is complete and time has gone on since; the second one
\* has been listening for some time
C25_Witness ==
  IF Len(practiced_notes) < 2
  THEN FALSE
  ELSE /\ practiced_notes[1].complete = TRUE
       /\ now > practiced_notes[1].success_timestamp
       /\ practiced_notes[2].start_timestamp # 0
       /\ practiced_notes[2].complete = FALSE
       /\ now > practiced_notes[2].start_timestamp

\* C26 (SpecValues): the bin selected as the dominant one lies in
\* fft_imin .. fft_imax - 1 even when the loudest bin of the whole spectrum
\* lies outside, so the midi value of the reported frequency is in 40 .. 76.
C26_BandFilter ==
  probe.call = "argmax" =>
    /\ fft_imin <= probe.bin /\ probe.bin < fft_imax
    /\ probe.freq = fft_freqs(probe.bin)
    /\ MIDI_MIN <= probe.value /\ probe.value <= MIDI_MAX

\* the loudest bin of the spectrum is outside the band and the bin selected
\* is the one with energy inside
C26_Witness ==
  IF probe.call # "argmax"
  THEN FALSE
  ELSE /\ \E b \in DOMAIN probe.spectrum :
            /\ b < fft_imin \/ b >= fft_imax
            /\ \A j \in DOMAIN probe.spectrum : probe.spectrum[j] < probe.spectrum[b] \/ j = b
       /\ probe.bin \in DOMAIN probe.spectrum
       /\ fft_imin < probe.bin /\ probe.bin < fft_imax

\* C27 (SpecValues): for every midi value in 40 .. 76,
\* freq_to_midi(midi_to_freq(midi)) is that midi value.
C27_RoundTrip ==
  (probe.call = "freq_to_midi" /\ MIDI_MIN <= probe.midi /\ probe.midi <= MIDI_MAX) =>
    probe.value = probe.midi

\* the round trip of the highest note of the guitar
C27_Witness ==
  /\ probe.call = "freq_to_midi"
  /\ probe.midi = MIDI_MAX
  /\ probe.freq = midi_to_freq(MIDI_MAX)
  /\ probe.value = MIDI_MAX

\* C28 (SpecGUI): _start_training requests a note only when in_training is
\* false and there is no attempt or the current one is complete, so through
\* the window no attempt is created while the latest one is incomplete; and
\* at most one call of _check_note_practice_status is pending at any time.
C28_CallerGuard ==
  /\ [](after_calls.check <= 1)
  /\ [](after_calls.check = 1 => in_training)
  /\ [][Len(practiced_notes') > Len(practiced_notes) =>
          /\ ~in_training
          /\ IF Len(practiced_notes) = 0 THEN TRUE ELSE CurrentComplete]_vars

\* Start was clicked during the second that follows a complete attempt: the
\* attempt that the click created is polled while the callback that would
\* have requested it is still pending
C28_Witness ==
  /\ Len(practiced_notes) = 2
  /\ in_training
  /\ after_calls.check = 1
  /\ after_calls.start = 1

\* play and queue share no note, hold no note twice, and hold together the
\* notes of the sequence notes
C29_Partition(play, queue, notes) ==
  /\ Range(play) \cap Range(queue) = {}
  /\ Cardinality(Range(play)) = Len(play)
  /\ Cardinality(Range(queue)) = Len(queue)
  /\ Range(play) \cup Range(queue) = Range(notes)

\* a request that re-seeds leaves a partition of the selected topic; any
\* other step leaves a partition of the same notes, with the notes that were
\* in play still in play in the same order, at most one more after them, and
\* no note in queue that was not
C29_Step ==
  IF ResetDue /\ ~topic_changed' /\ ~add_notes_method_changed'
  THEN C29_Partition(notes_in_play', notes_in_queue', TopicNotes(topic))
  ELSE /\ C29_Partition(notes_in_play', notes_in_queue', notes_in_play \o notes_in_queue)
       /\ Len(notes_in_play) <= Len(notes_in_play')
       /\ Len(notes_in_play') <= Len(notes_in_play) + 1
       /\ SubSeq(notes_in_play', 1, Len(notes_in_play)) = notes_in_play
       /\ Range(notes_in_queue') \subseteq Range(notes_in_queue)
       /\ Len(notes_in_queue') <= Len(notes_in_queue)

\* C29 (SpecSched): after every new_note_practice the notes in play and the
\* notes in queue are disjoint, without duplicates, and together exactly the
\* notes of the topic that was selected at the most recent re-seed; between
\* re-seeds play only grows, by at most one note a request, queue only
\* shrinks, and no note leaves play.
C29_PlayQueuePartition ==
  /\ [](Len(practiced_notes) > 0 =>
          /\ Range(notes_in_play) \cap Range(notes_in_queue) = {}
          /\ Cardinality(Range(notes_in_play)) = Len(notes_in_play)
          /\ Cardinality(Range(notes_in_queue)) = Len(notes_in_queue))
  /\ []((Len(practiced_notes) > 0 /\ ~topic_changed) =>
          C29_Partition(notes_in_play, notes_in_queue, TopicNotes(topic)))
  /\ [][C29_Step]_vars

\* a note has gone from the queue to play since the seed, and notes are left
\* in the queue
C29_Witness ==
  /\ Len(practiced_notes) > 1
  /\ ~ResetDue
  /\ Len(notes_in_play) = SEED_NOTES + 1
  /\ Len(notes_in_queue) > 0

\* the selection changes or a flag is raised
C30_Switch ==
  \/ topic' # topic
  \/ add_notes_method' # add_notes_method
  \/ ~topic_changed /\ topic_changed'
  \/ ~add_notes_method_changed /\ add_notes_method_changed'

\* C30 (SpecConfig): the setters of the topic and of the mode change only
\* the selection and the changed flags and leave the history, the notes in
\* play and in queue and the running attempt as they are; the reset is
\* applied only by the next new_note_practice; a topic that is set again and
\* a mode that is toggled raise their flag, and a raised flag stays raised
\* until the request that resets the history.
C30_DeferredReset ==
  /\ [][C30_Switch =>
          UNCHANGED << practiced_notes, notes_in_play, notes_in_queue, threads,
                       orphans, stream_active, add_notes_increment,
                       threshold_multiplier >>]_vars
  /\ [][(practiced_notes' # practiced_notes \/ notes_in_play' # notes_in_play
           \/ notes_in_queue' # notes_in_queue \/ threads' # threads) =>
          /\ ~topic_changed' /\ ~add_notes_method_changed'
          /\ threads'[Len(threads')] = NewThread
          /\ topic' = topic /\ add_notes_method' = add_notes_method]_vars
  /\ [][ResetDue =>
          \/ ResetDue' /\ practiced_notes' = practiced_notes
          \/ /\ ~ResetDue'
             /\ Len(practiced_notes') = 1
             /\ Range(notes_in_play') \cup Range(notes_in_queue') = Range(TopicNotes(topic))]_vars
  /\ [][\A v \in 0..(NumTopics - 1) :
          set_current_topic(v) => topic' = v /\ topic_changed']_vars
  /\ [][\A v \in MethodInputs :
          (set_add_notes_method(v) /\ v # add_notes_method) =>
            add_notes_method' = v /\ add_notes_method_changed']_vars

\* the topic was switched after a request: the target and the notes in play
\* are not notes of the current topic, and the reset is pending
C30_Witness ==
  /\ Len(practiced_notes) = 1
  /\ topic_changed
  /\ practiced_notes[1].target_note \notin Range(TopicNotes(topic))
  /\ \E i \in 1..Len(notes_in_play) : notes_in_play[i] \notin Range(TopicNotes(topic))

\* attempt i is the current one and is complete
C31_Complete(i) ==
  IF Len(practiced_notes) # i THEN FALSE ELSE practiced_notes[i].complete = TRUE

\* _check_note_practice_status has seen that attempt i is complete: the flag
\* is down and _start_training is due
C31_Detected(i) ==
  C31_Complete(i) /\ ~in_training /\ after_calls.start >= 1

\* C31 (SpecGUILive): with the callbacks of the window called when they are
\* due, every attempt that becomes complete is eventually detected by
\* _check_note_practice_status and is eventually followed by a new attempt,
\* exactly one, requested through _start_training, whatever clicks on Start
\* come in between.
C31_SessionProgress ==
  /\ \A i \in 1..(MaxGuiAttempts - 1) :
        (C31_Complete(i) /\ in_training) ~> C31_Detected(i)
  /\ \A i \in 1..(MaxGuiAttempts - 1) :
        C31_Complete(i) ~> (Len(practiced_notes) = i + 1)
  /\ [][Len(practiced_notes') # Len(practiced_notes) =>
          /\ Len(practiced_notes') = Len(practiced_notes) + 1
          /\ IF Len(practiced_notes) = 0 THEN TRUE ELSE CurrentComplete]_vars

\* the first attempt was complete and detected, and the second one has been
\* requested and is polled, no other request being due
C31_Witness ==
  IF Len(practiced_notes) # 2
  THEN FALSE
  ELSE /\ practiced_notes[1].complete = TRUE
       /\ practiced_notes[2].complete = FALSE
       /\ in_training
       /\ after_calls.check = 1
       /\ after_calls.start = 0

=============================================================================
